---- MODULE Spec2Model ----
(***************************************************************************)
(* Model of serverless-postgres-event: the CloudFormation custom-resource  *)
(* provider (src/provider/src/index.ts: handler, respond, the SQL helpers  *)
(* and withClient).                                                        *)
(*                                                                         *)
(* JavaScript strings whose content the code inspects (table names, ARNs,  *)
(* namespaces, identifiers) are sequences of one-character strings.        *)
(* Connection strings are only tested for emptiness and equality and are   *)
(* TLA+ strings.                                                           *)
(***************************************************************************)
EXTENDS Integers, Sequences, FiniteSets, TLC

(* ---------------- JavaScript values ---------------- *)

\* The JavaScript value undefined, where a string (a sequence of characters) is expected:
\* a one-element sequence whose element is no single character.
Undefined == << "<undefined>" >>

\* The JavaScript value null (initial value of physId).
Null == << "<null>" >>

\* An absent optional enum-valued property (Trigger.order, Trigger.level).
Unset == "<unset>"

\* JavaScript truthiness of a string-or-undefined-or-null value.
Truthy(v) == v # Undefined /\ v # Null /\ v # <<>>

\* A truthiness test that lets the empty connection string pass
TruthyConnAny(c) == c = c

\* Truthiness of a connection string ('' and undefined are both falsy; undefined is modelled as "").
TruthyConn(c) == c # ""

(* ---------------- string helpers ---------------- *)

\* Array.prototype.join over strings
RECURSIVE Join(_, _)
Join(parts, sep) ==
  IF Len(parts) = 0 THEN <<>>
  ELSE IF Len(parts) = 1 THEN parts[1]
  ELSE parts[1] \o sep \o Join(Tail(parts), sep)

\* String.prototype.split with a one-character separator
RECURSIVE SplitFrom(_, _, _, _)
SplitFrom(s, ch, i, cur) ==
  IF i > Len(s) THEN << cur >>
  ELSE IF s[i] = ch THEN << cur >> \o SplitFrom(s, ch, i + 1, <<>>)
  ELSE SplitFrom(s, ch, i + 1, Append(cur, s[i]))

Split(s, ch) == SplitFrom(s, ch, 1, <<>>)

\* String.prototype.includes with a one-character needle
Includes(s, ch) == \E i \in 1..Len(s) : s[i] = ch

\* String.prototype.indexOf(marker): 0-based index of the first occurrence, -1 when absent
IndexOf(s, m) ==
  LET hits == { i \in 1..(Len(s) - Len(m) + 1) : SubSeq(s, i, i + Len(m) - 1) = m }
  IN IF hits = {} THEN -1 ELSE (CHOOSE i \in hits : \A j \in hits : i <= j) - 1

\* String.prototype.slice(from) with a 0-based start
SliceFrom(s, from) == SubSeq(s, from + 1, Len(s))

(* ---------------- src/provider/src/index.ts: SQL helpers ---------------- *)

DQ == "\""

\* qIdent: wrap in double quotes, doubling embedded double quotes
RECURSIVE DoubleQuotes(_)
DoubleQuotes(id) ==
  IF Len(id) = 0 THEN <<>>
  ELSE (IF Head(id) = DQ THEN << DQ, DQ >> ELSE << Head(id) >>) \o DoubleQuotes(Tail(id))

qIdent(id) == << DQ >> \o DoubleQuotes(id) \o << DQ >>

\* splitQualifiedName: result [ok, schema, name]; ok = FALSE is the thrown
\* Error('Invalid table qualified name')
splitQualifiedName(qname) ==
  IF Includes(qname, ".")
  THEN LET parts  == Split(qname, ".")
           schema == parts[1]
           name   == parts[2]
       IN IF schema = <<>> \/ name = <<>>
          THEN [ok |-> FALSE, schema |-> schema, name |-> name]
          ELSE [ok |-> TRUE, schema |-> schema, name |-> name]
  ELSE [ok |-> TRUE, schema |-> << "p", "u", "b", "l", "i", "c" >>, name |-> qname]

FunctionMarker == << ":", "f", "u", "n", "c", "t", "i", "o", "n", ":" >>

\* lambdaNameFromArn: result [ok, val]; ok = FALSE is the TypeError raised by
\* arn.indexOf when arn is undefined
lambdaNameFromArn(arn) ==
  IF arn = Undefined THEN [ok |-> FALSE, val |-> <<>>]
  ELSE LET idx == IndexOf(arn, FunctionMarker)
       IN IF idx = -1
          THEN LET segs == Split(arn, ":")
                   last == segs[Len(segs)]
               IN [ok |-> TRUE,
                   val |-> IF last = <<>> THEN << "l", "a", "m", "b", "d", "a" >> ELSE last]
          ELSE [ok |-> TRUE, val |-> SliceFrom(arn, idx + Len(FunctionMarker))]

\* A trigger name made of the namespace alone
buildTriggerNameOfNamespace(namespace, targetArn) ==
  LET n == lambdaNameFromArn(targetArn)
  IN IF n.ok THEN [ok |-> TRUE, val |-> Join(<< namespace >>, << "_" >>)]
     ELSE [ok |-> FALSE, val |-> <<>>]

\* buildTriggerName: [namespace, lambdaNameFromArn(targetArn)].join('_')
buildTriggerName(namespace, targetArn) ==
  LET n == lambdaNameFromArn(targetArn)
  IN IF n.ok THEN [ok |-> TRUE, val |-> Join(<< namespace, n.val >>, << "_" >>)]
     ELSE [ok |-> FALSE, val |-> <<>>]

\* '...' literal with embedded single quotes doubled (targetArn.replace(/'/g, "''"))
SQ == "'"

RECURSIVE DoubleSingleQuotes(_)
DoubleSingleQuotes(v) ==
  IF Len(v) = 0 THEN <<>>
  ELSE (IF Head(v) = SQ THEN << SQ, SQ >> ELSE << Head(v) >>) \o DoubleSingleQuotes(Tail(v))

arnLiteral(targetArn) == << SQ >> \o DoubleSingleQuotes(targetArn) \o << SQ >>

\* TriggerProps.update: [present, columns]; a column list is
\* [t |-> "undefined" | "string" | "array", v |-> value]
NoColumns == [t |-> "undefined", v |-> <<>>]

NoUpdate == [present |-> FALSE, columns |-> NoColumns]

\* String.prototype.trim() is non-empty: some character is not a blank
TrimNonEmpty(s) == \E i \in 1..Len(s) : s[i] # " "

\* buildOps: the operations of the trigger, in the order they are joined by ' OR ';
\* each [op, of] with `of` the quoted column list of UPDATE OF
buildOps(tr) ==
  LET ins == IF tr.insert THEN << [op |-> "INSERT", of |-> <<>>] >> ELSE <<>>
      del == IF tr.delete THEN << [op |-> "DELETE", of |-> <<>>] >> ELSE <<>>
      upd == IF ~tr.update.present THEN <<>>
             ELSE LET cols == tr.update.columns
                  IN IF cols.t = "array" /\ Len(cols.v) > 0
                     THEN << [op |-> "UPDATE",
                              of |-> [i \in 1..Len(cols.v) |-> qIdent(cols.v[i])]] >>
                     ELSE IF cols.t = "string" /\ TrimNonEmpty(cols.v)
                     THEN << [op |-> "UPDATE", of |-> << qIdent(cols.v) >>] >>
                     ELSE << [op |-> "UPDATE", of |-> <<>>] >>
      ops == ins \o del \o upd
  IN IF Len(ops) = 0
     THEN << [op |-> "INSERT", of |-> <<>>], [op |-> "UPDATE", of |-> <<>>],
             [op |-> "DELETE", of |-> <<>>] >>
     ELSE ops

\* level.toLowerCase()
toLowerCase(level) ==
  IF level = "ROW" THEN "row" ELSE IF level = "STATEMENT" THEN "statement" ELSE level

\* A SQL text, as the pieces interpolated into its template.
Statement(kind, trigger, schema, table, order, ops, level, ns, fn, arg, role, roleLit, whenClause) ==
  [kind |-> kind, trigger |-> trigger, schema |-> schema, table |-> table,
   order |-> order, ops |-> ops, level |-> level, ns |-> ns, fn |-> fn, arg |-> arg,
   role |-> role, roleLit |-> roleLit, whenClause |-> whenClause]

\* sqlCreatePrerequisites: the role name is interpolated raw into the catalog lookup
\* literal and quoted everywhere else
sqlCreatePrerequisites(roleName, namespace, lambdaInvokerFn) ==
  Statement("prereq", <<>>, <<>>, <<>>, "", <<>>, "", qIdent(namespace),
            qIdent(lambdaInvokerFn), <<>>, qIdent(roleName), << SQ >> \o roleName \o << SQ >>,
            <<>>)

\* sqlCreateTrigger: result [ok, sql, error]; ok = FALSE is the thrown Error
sqlCreateTrigger(triggerName, tblSchema, tblName, tr, namespace, dbFnName, targetArn) ==
  LET order == IF tr.order = Unset THEN "AFTER" ELSE tr.order
      level == IF tr.level = Unset THEN "ROW" ELSE tr.level
  IN IF order # "AFTER"
     THEN [ok |-> FALSE, sql |-> <<>>, error |-> "Only AFTER triggers are supported"]
     ELSE IF level # "ROW"
     THEN [ok |-> FALSE, sql |-> <<>>, error |-> "Only ROW triggers are supported"]
     ELSE [ok |-> TRUE, error |-> "",
           sql |-> << Statement("create", qIdent(triggerName), qIdent(tblSchema),
                                qIdent(tblName), order, buildOps(tr), toLowerCase(level),
                                qIdent(namespace), qIdent(dbFnName), arnLiteral(targetArn),
                                <<>>, <<>>, <<>>) >>]

\* sqlDropTrigger
sqlDropTrigger(triggerName, tblSchema, tblName) ==
  Statement("drop", qIdent(triggerName), qIdent(tblSchema), qIdent(tblName), "", <<>>, "",
            <<>>, <<>>, <<>>, <<>>, <<>>, <<>>)

(* ---------------- requests ---------------- *)

NsA == << "n", "1" >>

NsB == << "n", "2" >>

RoleA == << "r" >>

InvokerFn == << "f" >>

\* DBProps
DBProps(cs, ns) ==
  [ConnectionString |-> cs, Namespace |-> ns, RoleName |-> RoleA, FunctionName |-> InvokerFn]

\* Connection strings of a request; "" is an absent (or empty) Database.ConnectionString
ConnStrings == { "", "pgA", "pgB" }

\* Values of process.env.PG_CONNECTION_STRING; "" is unset
EnvValues == { "", "pgA" }

ArnFull == << "a" >> \o FunctionMarker \o << "f", "a" >>

ArnBare == << "a", ":", "f", "b" >>

\* TargetArn of a request; <<>> is a missing TargetArn
TargetArns == { <<>>, ArnFull, ArnBare }

\* TriggerProps
TriggerProps(table, ins, upd, del, order, level) ==
  [table |-> table, insert |-> ins, update |-> upd, delete |-> del,
   order |-> order, level |-> level]

Triggers ==
  { TriggerProps(<< "t" >>, FALSE, NoUpdate, FALSE, Unset, Unset),
    TriggerProps(<< "s", ".", "t" >>, TRUE, NoUpdate, FALSE, "AFTER", "ROW"),
    TriggerProps(<< "s", "." >>, TRUE, NoUpdate, TRUE, "AFTER", "ROW"),
    TriggerProps(<< "t" >>, TRUE, NoUpdate, FALSE, "BEFORE", "ROW"),
    TriggerProps(<< "t" >>, FALSE, [present |-> TRUE, columns |-> NoColumns], FALSE,
                 "AFTER", "STATEMENT") }

NoTrigger == TriggerProps(<<>>, FALSE, NoUpdate, FALSE, Unset, Unset)

\* CloudFormationCustomResourceEvent<ResourceProperties>
Event(st, rt, pid, db, trg, arn, oldDb) ==
  [ServiceType |-> st, RequestType |-> rt, PhysicalResourceId |-> pid,
   Database |-> db, Trigger |-> trg, TargetArn |-> arn, OldDatabase |-> oldDb]

NoEvent ==
  Event("none", "none", Undefined, DBProps("", <<>>), NoTrigger, <<>>, DBProps("", <<>>))

\* The physical ids a Trigger resource can have been given by an earlier request
TriggerIds == { buildTriggerName(ns, ArnFull).val : ns \in { NsA, NsB } }

PrereqEvents ==
  { Event("Prerequisites", "Create", Undefined, DBProps(cs, NsA), NoTrigger, <<>>,
          DBProps("", <<>>)) : cs \in ConnStrings }
  \cup
  { Event("Prerequisites", rt, pid, DBProps(cs, NsA), NoTrigger, <<>>, DBProps(ocs, ons)) :
      rt \in { "Update", "Delete" }, pid \in { NsA, NsB }, cs \in ConnStrings,
      ocs \in { "pgA" }, ons \in { NsA } }

TriggerEvents ==
  { Event("Trigger", "Create", Undefined, DBProps(cs, NsA), trg, arn, DBProps("", <<>>)) :
      cs \in ConnStrings, trg \in Triggers, arn \in TargetArns }
  \cup
  { Event("Trigger", "Delete", pid, DBProps(cs, NsA), trg, arn, DBProps("", <<>>)) :
      pid \in TriggerIds, cs \in ConnStrings, trg \in Triggers, arn \in TargetArns }
  \cup
  UNION { { Event("Trigger", "Update", buildTriggerName(ons, ArnFull).val, DBProps(cs, NsA),
                  trg, arn, DBProps(ocs, ons)) :
              cs \in ConnStrings, trg \in Triggers, arn \in TargetArns } :
          <<ocs, ons>> \in ConnStrings \X { NsA, NsB } }

Events == PrereqEvents \cup TriggerEvents

(* ---------------- state ---------------- *)

VARIABLES
  env,        \* process.env.PG_CONNECTION_STRING ("" when unset)
  event,      \* the request being handled
  pc,         \* position of the handler
  physId,     \* handler's physId
  step,       \* the withClient call in progress: [fn, conn, sql]
  client,     \* "none" or "open": the pg Client of the withClient call in progress
  pending,    \* error raised by fn(client) inside withClient's try, kept across the finally
  err,        \* the error being propagated
  result,     \* "running", "returned" or "raised": how the handler's promise settled
  calls,      \* invocations of ensurePrereqs / createTrigger / dropTrigger
  conns,      \* client.connect() and client.end() calls
  stmts,      \* client.query() calls
  reports,    \* PUTs of respond
  logs,       \* console.log lines of the ignored drop failures
  database,   \* the triggers that exist, in every database: a set of [conn, schema, table, name]
  prev,       \* the triggers the previous configuration of the resource created
  service,    \* the serverless service the plugin runs in: [connectionString, functions]
  hook,       \* the plugin entry point that is running
  fns,        \* the plugin's list of functions with a postgres event
  at,         \* the plugin's position in that list
  outcome,    \* "running", "returned" or "raised": how the plugin hook settled
  template,   \* compiledCloudFormationTemplate.Resources written by the template generator
  pin,        \* input of the pure function under evaluation
  pout        \* its output

\* The databases' content
dbVars == << database, prev >>

\* The state of the plugin (deploy-time client and template generator)
pluginVars == << service, hook, fns, at, outcome, template >>

\* The state of a pure-function evaluation
pureVars == << pin, pout >>

vars ==
  << env, event, pc, physId, step, client, pending, err, result, calls, conns, stmts,
     reports, logs, database, prev, service, hook, fns, at, outcome, template, pin, pout >>

NoError == [name |-> "", message |-> ""]

Error(message) == [name |-> "Error", message |-> message]

TypeError(message) == [name |-> "TypeError", message |-> message]

\* String(err) of an Error object: "name: message", or "name" when the message is empty
StringOfError(e) == IF e.message = "" THEN << e.name >> ELSE << e.name, ": ", e.message >>

NoStatement ==
  Statement("none", <<>>, <<>>, <<>>, "", <<>>, "", <<>>, <<>>, <<>>, <<>>, <<>>, <<>>)

NoStep == [fn |-> "none", conn |-> "", sql |-> NoStatement]

\* No serverless service (the plugin is not running)
NoService == [connectionString |-> "", namespace |-> <<>>, functions |-> <<>>]

\* No pure-function evaluation
NoInput == [f |-> "none", ns |-> <<>>, a |-> <<>>, b |-> <<>>]

NoOutput == [calls |-> 0, a |-> <<>>, b |-> <<>>, same |-> TRUE]

(* ---------------- the database ---------------- *)

\* A trigger that exists in the database behind a connection string, by its quoted names
DbTrigger(conn, schema, table, name) ==
  [conn |-> conn, schema |-> qIdent(schema), table |-> qIdent(table), name |-> qIdent(name)]

\* The commands of a SQL text, in order: the Create-Trigger text is
\* "drop trigger if exists ... cascade; create trigger ...", the Drop-Trigger text the drop alone
CommandsOfCreateOnly(sql) ==
  IF sql.kind = "create" THEN << "create" >>
  ELSE IF sql.kind = "drop" THEN << "dropIfExists" >>
  ELSE <<>>

CommandsOf(sql) ==
  IF sql.kind = "create" THEN << "dropIfExists", "create" >>
  ELSE IF sql.kind = "drop" THEN << "dropIfExists" >>
  ELSE <<>>

\* One command on the database content d: "drop trigger if exists" removes the trigger of
\* that name on that table; "create trigger" fails when it exists already
ExecCommand(d, conn, sql, cmd) ==
  LET t == [conn |-> conn, schema |-> sql.schema, table |-> sql.table, name |-> sql.trigger]
  IN IF cmd = "dropIfExists" THEN [ok |-> TRUE, db |-> d \ { t }]
     ELSE IF t \in d THEN [ok |-> FALSE, db |-> d]
     ELSE [ok |-> TRUE, db |-> d \cup { t }]

RECURSIVE ExecCommands(_, _, _, _)
ExecCommands(d, conn, sql, cmds) ==
  IF Len(cmds) = 0 THEN [ok |-> TRUE, db |-> d]
  ELSE LET r == ExecCommand(d, conn, sql, Head(cmds))
       IN IF r.ok THEN ExecCommands(r.db, conn, sql, Tail(cmds)) ELSE r

\* client.query(sql) on the database behind conn: one implicit transaction, so a failing
\* command leaves the content as it was
Exec(d, conn, sql) ==
  LET r == ExecCommands(d, conn, sql, CommandsOf(sql))
  IN IF r.ok THEN r ELSE [ok |-> FALSE, db |-> d]

Init ==
  /\ env \in EnvValues
  /\ event = NoEvent
  /\ pc = "idle"
  /\ physId = Null
  /\ step = NoStep
  /\ client = "none"
  /\ pending = NoError
  /\ err = NoError
  /\ result = "running"
  /\ calls = <<>>
  /\ conns = <<>>
  /\ stmts = <<>>
  /\ reports = <<>>
  /\ logs = <<>>
  /\ database = {}
  /\ prev = {}
  /\ service = NoService
  /\ hook = "none"
  /\ fns = <<>>
  /\ at = 0
  /\ outcome = "running"
  /\ template = <<>>
  /\ pin = NoInput
  /\ pout = NoOutput

(* ---------------- handler ---------------- *)

\* props.Database.ConnectionString || process.env.PG_CONNECTION_STRING || ''
newConn ==
  IF TruthyConn(event.Database.ConnectionString) THEN event.Database.ConnectionString
  ELSE IF TruthyConn(env) THEN env ELSE ""

\* event.OldResourceProperties.Database.ConnectionString
oldConn == event.OldDatabase.ConnectionString

\* A table the previous configuration can have named, other than the current one
OtherTable == << "u" >>

\* The explicit connection string or, when none is configured, the process-wide default
EffectiveConn(cs) == IF TruthyConn(cs) THEN cs ELSE env

\* What the previous configuration of the resource of request e can have left in the
\* databases: for an Update, the function's trigger in the old database and old namespace,
\* on the current table or on another one; for a Delete, the current trigger; else nothing
PreviousTriggers(e) ==
  IF e.ServiceType = "Trigger" /\ Truthy(e.TargetArn) /\ e.RequestType = "Update"
     /\ TruthyConn(EffectiveConn(e.OldDatabase.ConnectionString))
  THEN { { DbTrigger(EffectiveConn(e.OldDatabase.ConnectionString),
                     splitQualifiedName(tbl).schema, splitQualifiedName(tbl).name,
                     buildTriggerName(e.OldDatabase.Namespace, e.TargetArn).val) } :
           tbl \in { x \in { e.Trigger.table, OtherTable } : splitQualifiedName(x).ok } }
  ELSE IF e.ServiceType = "Trigger" /\ Truthy(e.TargetArn) /\ e.RequestType = "Delete"
          /\ TruthyConn(EffectiveConn(e.Database.ConnectionString))
          /\ splitQualifiedName(e.Trigger.table).ok
  THEN { { DbTrigger(EffectiveConn(e.Database.ConnectionString),
                     splitQualifiedName(e.Trigger.table).schema,
                     splitQualifiedName(e.Trigger.table).name,
                     buildTriggerName(e.Database.Namespace, e.TargetArn).val) } }
  ELSE { {} }

\* The orchestrator invokes the handler with a request.
Invoke ==
  /\ pc = "idle"
  /\ hook = "none"
  /\ pin = NoInput
  /\ \E e \in Events :
       /\ event' = e
       /\ \E p \in PreviousTriggers(e) : prev' = p /\ database' = p
  /\ pc' = "handler"
  /\ UNCHANGED << pluginVars, pureVars, env, physId, step, client, pending, err, result, calls, conns, stmts,
                  reports, logs >>

\* Where the Trigger path goes after physId is set, by RequestType
TriggerBranch ==
  IF event.RequestType = "Create" THEN "createTrigger" ELSE "dropTrigger"

\* Where the Prerequisites path goes after physId is set, by RequestType
PrereqBranch ==
  IF event.RequestType \in { "Create", "Update" } THEN "ensurePrereqs" ELSE "respond"

\* handler, from entry up to the switch on RequestType
HandlerEnter ==
  /\ pc = "handler"
  /\ IF event.ServiceType = "Prerequisites"
     THEN IF ~TruthyConn(newConn)
          THEN /\ err' = Error("Missing Database.ConnectionString")
               /\ pc' = "catch"
               /\ UNCHANGED physId
          ELSE /\ physId' = IF event.RequestType = "Create" THEN event.Database.Namespace
                            ELSE IF Truthy(event.PhysicalResourceId)
                                 THEN event.PhysicalResourceId
                                 ELSE event.Database.Namespace
               /\ pc' = PrereqBranch
               /\ UNCHANGED err
     ELSE IF ~Truthy(event.TargetArn)
          THEN /\ err' = Error("Missing TargetArn")
               /\ pc' = "catch"
               /\ UNCHANGED physId
          ELSE IF ~TruthyConn(newConn)
          THEN /\ err' = Error("Missing Database.ConnectionString")
               /\ pc' = "catch"
               /\ UNCHANGED physId
          ELSE /\ physId' = buildTriggerName(event.Database.Namespace, event.TargetArn).val
               /\ pc' = TriggerBranch
               /\ UNCHANGED err
  /\ UNCHANGED << pluginVars, pureVars, dbVars, env, event, step, client, pending, result, calls, conns, stmts,
                  reports, logs >>

\* ensurePrereqs(conn, props.Database) up to withClient's connect
EnsurePrereqs ==
  /\ pc = "ensurePrereqs"
  /\ calls' = Append(calls, [fn |-> "ensurePrereqs", conn |-> newConn,
                             ns |-> event.Database.Namespace, functionName |-> <<>>])
  /\ step' = [fn |-> "ensurePrereqs", conn |-> newConn,
              sql |-> sqlCreatePrerequisites(event.Database.RoleName,
                                             event.Database.Namespace,
                                             event.Database.FunctionName)]
  /\ pc' = "connect"
  /\ UNCHANGED << pluginVars, pureVars, dbVars, env, event, physId, client, pending, err, result, conns, stmts,
                  reports, logs >>

\* The functionName argument of the handler's createTrigger calls: the calls pass four
\* arguments to a function of five parameters, so the fifth is undefined.
CreateFunctionNameArg == Undefined

\* createTrigger(conn, db, trg, targetArn, functionName) up to withClient's connect:
\* result [ok, sql, error]
createTrigger(conn, db, trg, targetArn, functionName) ==
  LET q    == splitQualifiedName(trg.table)
      name == buildTriggerName(db.Namespace, functionName)
      sql  == sqlCreateTrigger(name.val, q.schema, q.name, trg, db.Namespace,
                               db.FunctionName, targetArn)
  IN IF ~q.ok
     THEN [ok |-> FALSE, sql |-> NoStatement,
           error |-> Error("Invalid table qualified name")]
     ELSE IF ~name.ok
     THEN [ok |-> FALSE, sql |-> NoStatement,
           error |-> TypeError("Cannot read properties of undefined (reading 'indexOf')")]
     ELSE IF ~sql.ok
     THEN [ok |-> FALSE, sql |-> NoStatement, error |-> Error(sql.error)]
     ELSE [ok |-> TRUE, sql |-> sql.sql[1], error |-> NoError]

\* dropTrigger(conn, db, trg, functionName) up to withClient's connect: result [ok, sql, error]
dropTrigger(conn, db, trg, functionName) ==
  LET q    == splitQualifiedName(trg.table)
      name == buildTriggerName(db.Namespace, functionName)
  IN IF ~q.ok
     THEN [ok |-> FALSE, sql |-> NoStatement,
           error |-> Error("Invalid table qualified name")]
     ELSE IF ~name.ok
     THEN [ok |-> FALSE, sql |-> NoStatement,
           error |-> TypeError("Cannot read properties of undefined (reading 'indexOf')")]
     ELSE [ok |-> TRUE, sql |-> sqlDropTrigger(name.val, q.schema, q.name), error |-> NoError]

\* handler's createTrigger(newConn, newDb, trg, targetArn) call (Create and Update)
CreateTrigger ==
  /\ pc = "createTrigger"
  /\ LET r == createTrigger(newConn, event.Database, event.Trigger, event.TargetArn,
                            CreateFunctionNameArg)
     IN /\ calls' = Append(calls, [fn |-> "createTrigger", conn |-> newConn,
                                   ns |-> event.Database.Namespace,
                                   functionName |-> CreateFunctionNameArg])
        /\ IF r.ok
           THEN /\ step' = [fn |-> "createTrigger", conn |-> newConn, sql |-> r.sql]
                /\ pc' = "connect"
                /\ UNCHANGED err
           ELSE /\ err' = r.error
                /\ pc' = "catch"
                /\ UNCHANGED step
  /\ UNCHANGED << pluginVars, pureVars, dbVars, env, event, physId, client, pending, result, conns, stmts, reports, logs >>

\* Variant of DropTarget: the drop always goes to the previous configuration's database.
DropTargetOld == [conn |-> oldConn, db |-> event.OldDatabase]

\* The database the handler's dropTrigger call is directed at: on Update the old one
\* when its connection string is set and differs from newConn, else the new one
DropTarget ==
  IF event.RequestType = "Update" /\ TruthyConn(oldConn) /\ oldConn # newConn
  THEN [conn |-> oldConn, db |-> event.OldDatabase]
  ELSE [conn |-> newConn, db |-> event.Database]

\* handler's dropTrigger(conn, db, trg, targetArn) call (Update and Delete)
DropTrigger ==
  /\ pc = "dropTrigger"
  /\ LET t == DropTarget
         r == dropTrigger(t.conn, t.db, event.Trigger, event.TargetArn)
     IN /\ calls' = Append(calls, [fn |-> "dropTrigger", conn |-> t.conn,
                                   ns |-> t.db.Namespace, functionName |-> event.TargetArn])
        /\ IF r.ok
           THEN /\ step' = [fn |-> "dropTrigger", conn |-> t.conn, sql |-> r.sql]
                /\ pc' = "connect"
                /\ UNCHANGED err
           ELSE /\ err' = r.error
                /\ pc' = "dropCatch"
                /\ UNCHANGED step
  /\ UNCHANGED << pluginVars, pureVars, dbVars, env, event, physId, client, pending, result, conns, stmts, reports, logs >>

\* Where the handler continues after the drop step, by RequestType
AfterDrop == IF event.RequestType = "Update" THEN "createTrigger" ELSE "respond"

\* Where control goes when the withClient call in progress resolves
StepResolved == IF step.fn = "dropTrigger" THEN AfterDrop ELSE "respond"

\* Variant of StepRejected: the rejection of dropTrigger is not caught at the call site.
StepRejectedUncaught == "catch"

\* Where control goes when the withClient call in progress rejects
StepRejected == IF step.fn = "dropTrigger" THEN "dropCatch" ELSE "catch"

\* withClient: await client.connect(), outside the try
ClientConnect ==
  /\ pc = "connect"
  /\ \E ok \in BOOLEAN :
       /\ conns' = Append(conns, [ev |-> "connect", conn |-> step.conn, fn |-> step.fn,
                                  ok |-> ok])
       /\ IF ok
          THEN /\ client' = "open"
               /\ pc' = "query"
               /\ UNCHANGED err
          ELSE /\ client' = "none"
               /\ pc' = StepRejected
               /\ err' = Error("connect failed")
  /\ UNCHANGED << pluginVars, pureVars, dbVars, env, event, physId, step, pending, result, calls, stmts, reports, logs >>

\* A withClient whose finally block is skipped when fn(client) rejects
AfterQueryNoFinally(ok) == IF ok THEN "end" ELSE StepRejected

\* withClient: where control goes when fn(client) settles, resolved (ok) or rejected:
\* to the finally block
AfterQuery(ok) == "end"

\* withClient: return await fn(client), i.e. c.query(sql), inside the try
ClientQuery ==
  /\ pc = "query"
  /\ \E good \in BOOLEAN :
       LET r  == Exec(database, step.conn, step.sql)
           ok == good /\ r.ok
       IN /\ stmts' = Append(stmts, [conn |-> step.conn, sql |-> step.sql, ok |-> ok])
          /\ pending' = IF ok THEN NoError ELSE Error("query failed")
          /\ database' = IF ok THEN r.db ELSE database
          /\ pc' = AfterQuery(ok)
  /\ UNCHANGED prev
  /\ UNCHANGED << pluginVars, pureVars, env, event, physId, step, client, err, result, calls, conns, reports, logs >>

\* withClient: finally { await client.end() }, then the call resolves or rejects
ClientEnd ==
  /\ pc = "end"
  /\ \E ok \in BOOLEAN :
       LET e == IF ~ok THEN Error("end failed") ELSE pending
       IN /\ conns' = Append(conns, [ev |-> "end", conn |-> step.conn, fn |-> step.fn,
                                     ok |-> ok])
          /\ IF e = NoError
             THEN /\ pc' = StepResolved
                  /\ UNCHANGED err
             ELSE /\ pc' = StepRejected
                  /\ err' = e
  /\ client' = "none"
  /\ pending' = NoError
  /\ UNCHANGED << pluginVars, pureVars, dbVars, env, event, physId, step, result, calls, stmts, reports, logs >>

\* .catch((e) => console.log('Drop trigger ... failed (ignored):', e.message))
DropCatch ==
  /\ pc = "dropCatch"
  /\ logs' = Append(logs, err.message)
  /\ err' = NoError
  /\ pc' = AfterDrop
  /\ UNCHANGED << pluginVars, pureVars, dbVars, env, event, physId, step, client, pending, result, calls, conns, stmts,
                  reports >>

\* Outcomes of fetch(event.ResponseURL, ...): a 2xx response, another status, a rejection
Transports == { "ok", "notOk", "netErr" }

\* Variant of respondBody: the Status does not depend on data.Error.
respondBodyAlwaysSuccess(pid, error) ==
  [Status |-> "SUCCESS",
   PhysicalResourceId |-> pid,
   Error |-> IF Truthy(error) THEN error ELSE Undefined]

\* respond: the body it PUTs
respondBody(pid, error) ==
  [Status |-> IF Truthy(error) THEN "FAILED" ELSE "SUCCESS",
   PhysicalResourceId |-> pid,
   Error |-> IF Truthy(error) THEN error ELSE Undefined]

\* await respond(event, { PhysicalResourceId: physId }) inside the try
Respond ==
  /\ pc = "respond"
  /\ \E t \in Transports :
       /\ reports' = Append(reports, [body |-> respondBody(physId, Undefined),
                                      transport |-> t])
       /\ IF t = "ok"
          THEN /\ pc' = "done"
               /\ result' = "returned"
               /\ UNCHANGED err
          ELSE /\ pc' = "catch"
               /\ err' = IF t = "notOk" THEN Error("CFN response PUT failed")
                         ELSE TypeError("fetch failed")
               /\ UNCHANGED result
  /\ UNCHANGED << pluginVars, pureVars, dbVars, env, event, physId, step, client, pending, calls, conns, stmts, logs >>

\* catch (err) { await respond(event, {PhysicalResourceId: physId!, Error: String(err)})
\*   .catch(() => {}); ... }: the Failure report, whose own failure is swallowed
HandlerCatch ==
  /\ pc = "catch"
  /\ \E t \in Transports :
       reports' = Append(reports, [body |-> respondBody(physId, StringOfError(err)),
                                   transport |-> t])
  /\ pc' = "rethrow"
  /\ UNCHANGED << pluginVars, pureVars, dbVars, env, event, physId, step, client, pending, err, result, calls, conns,
                  stmts, logs >>

\* catch (err) { ...; throw err }: the handler's promise rejects
HandlerRethrow ==
  /\ pc = "rethrow"
  /\ pc' = "done"
  /\ result' = "raised"
  /\ UNCHANGED << pluginVars, pureVars, dbVars, env, event, physId, step, client, pending, err, calls, conns, stmts,
                  reports, logs >>

(* ---------------- src/src/helpers.ts ---------------- *)

\* String.prototype.startsWith
StartsWith(str, prefix) == Len(str) >= Len(prefix) /\ SubSeq(str, 1, Len(prefix)) = prefix

\* helpers.splitQualifiedName: result [ok, schema, name]; ok = FALSE is the AssertionError
\* of assert(schema) / assert(name)
helpersSplitQualifiedName(qname) ==
  IF Includes(qname, ".")
  THEN LET parts == Split(qname, ".")
       IN IF parts[1] = <<>> THEN [ok |-> FALSE, schema |-> parts[1], name |-> parts[2]]
          ELSE IF parts[2] = <<>> THEN [ok |-> FALSE, schema |-> parts[1], name |-> parts[2]]
          ELSE [ok |-> TRUE, schema |-> parts[1], name |-> parts[2]]
  ELSE [ok |-> TRUE, schema |-> << "p", "u", "b", "l", "i", "c" >>, name |-> qname]

\* helpers.partitionFromRegion
partitionFromRegion(region) ==
  IF StartsWith(region, << "c", "n", "-" >>) THEN << "a", "w", "s", "-", "c", "n" >>
  ELSE IF StartsWith(region, << "u", "s", "-", "g", "o", "v", "-" >>)
  THEN << "a", "w", "s", "-", "u", "s", "-", "g", "o", "v" >>
  ELSE << "a", "w", "s" >>

\* helpers.getLambdaArn: `arn:${partition}:lambda:${region}:${accountId}:function:${functionName}`
getLambdaArn(partition, region, accountId, functionName) ==
  Join(<< << "a", "r", "n" >>, partition, << "l", "a", "m", "b", "d", "a" >>, region,
          accountId, << "f", "u", "n", "c", "t", "i", "o", "n" >>, functionName >>, << ":" >>)

(* ---------------- src/src/index.ts: the deploy-time client ---------------- *)

\* PostgresEvent
PostgresEvent(table, operations, order, level, when) ==
  [table |-> table, operations |-> operations, order |-> order, level |-> level,
   when |-> when]

\* An entry of a function's events: a postgres event, or an event of another kind
FunctionEvent(isPostgres, ev) == [postgres |-> isPostgres, ev |-> ev]

\* A function of the service: its key, its deployed name and its declared events
ServiceFunction(key, name, events) == [key |-> key, name |-> name, events |-> events]

EvOnST ==
  FunctionEvent(TRUE, PostgresEvent(<< "s", ".", "t" >>, << "INSERT", "UPDATE" >>, "AFTER",
                                    "ROW", Undefined))

EvOnT ==
  FunctionEvent(TRUE, PostgresEvent(<< "t" >>, << "DELETE" >>, "AFTER", "ROW",
                                    << "N", "E", "W", ".", "x" >>))

EvBefore ==
  FunctionEvent(TRUE, PostgresEvent(<< "t" >>, << "INSERT" >>, "BEFORE", "ROW", Undefined))

EvStatement ==
  FunctionEvent(TRUE, PostgresEvent(<< "t" >>, << "INSERT" >>, "AFTER", "STATEMENT", Undefined))

EvMalformed ==
  FunctionEvent(TRUE, PostgresEvent(<< ".", "t" >>, << "INSERT" >>, "AFTER", "ROW", Undefined))

\* A postgres event whose operations list is empty (the schema's minItems is checked by
\* the framework, which by default only warns)
EvNoOps ==
  FunctionEvent(TRUE, PostgresEvent(<< "t" >>, <<>>, "AFTER", "ROW", Undefined))

\* A postgres event that declares neither order nor level
EvDefaults ==
  FunctionEvent(TRUE, PostgresEvent(<< "t" >>, << "INSERT" >>, Unset, Unset, Undefined))

EvHttp == FunctionEvent(FALSE, PostgresEvent(<<>>, <<>>, Unset, Unset, Undefined))

FnA(events) == ServiceFunction(<< "f", "a" >>, << "s", "-", "f", "a" >>, events)

FnB(events) == ServiceFunction(<< "f", "b" >>, << "s", "-", "f", "b" >>, events)

\* The functions of the services the plugin is run in, in declared order
FunctionLists ==
  { << FnA(<< EvOnST >>) >>,
    << FnA(<< EvOnST >>), FnB(<< EvOnT >>) >>,
    << FnA(<< EvOnST, EvOnT >>) >>,
    << FnA(<< EvOnST >>), FnB(<< EvOnT, EvOnST >>) >>,
    << FnA(<< EvOnST >>), FnB(<< EvBefore >>) >>,
    << FnA(<< EvOnST >>), FnB(<< EvStatement >>) >>,
    << FnA(<< EvOnST >>), FnB(<< EvMalformed >>) >>,
    << FnA(<< EvHttp >>), FnB(<< EvHttp, EvOnT >>) >>,
    << FnA(<< EvNoOps >>) >>,
    << FnA(<< EvDefaults >>) >> }

\* The services: custom.postgres.connectionString ("" is none), custom.postgres.namespace
\* and the functions
Services ==
  { [connectionString |-> cs, namespace |-> NsA, functions |-> f] :
      cs \in { "", "pgA" }, f \in FunctionLists }

Region == << "e", "u", "-", "1" >>

AccountId == << "1", "2" >>

\* get config(): connectionString ?? process.env.PG_CONNECTION_STRING ?? '', the configured
\* namespace, the role name and the invoker function name
PluginConfig ==
  [connectionString |-> IF service.connectionString # "" THEN service.connectionString
                        ELSE env,
   namespace |-> service.namespace,
   roleName |-> service.namespace \o << "_", "r" >>,
   functionName |-> InvokerFn]

\* One function of getFunctionsWithPostgresEvent's loop: [ok, found, fn]
MatchFunction(f) ==
  LET matches == SelectSeq(f.events, LAMBDA ev : ev.postgres)
  IN IF Len(matches) > 1
     THEN [ok |-> FALSE, found |-> FALSE, fn |-> <<>>]
     ELSE IF Len(matches) = 1
     THEN [ok |-> TRUE, found |-> TRUE,
           fn |-> [key |-> f.key, trigger |-> matches[1].ev,
                   arn |-> getLambdaArn(partitionFromRegion(Region), Region, AccountId,
                                        f.name)]]
     ELSE [ok |-> TRUE, found |-> FALSE, fn |-> <<>>]

\* getFunctionsWithPostgresEvent: result [ok, fns, error]; ok = FALSE is the Error thrown
\* at the first function that has more than one postgres event
RECURSIVE getFunctionsWithPostgresEvent(_)
getFunctionsWithPostgresEvent(functions) ==
  IF Len(functions) = 0 THEN [ok |-> TRUE, fns |-> <<>>, error |-> NoError]
  ELSE LET m == MatchFunction(Head(functions))
       IN IF ~m.ok
          THEN [ok |-> FALSE, fns |-> <<>>,
                error |-> Error("only one postgres event is supported per function")]
          ELSE LET rest == getFunctionsWithPostgresEvent(Tail(functions))
               IN IF ~rest.ok THEN rest
                  ELSE [ok |-> TRUE, error |-> NoError,
                        fns |-> (IF m.found THEN << m.fn >> ELSE <<>>) \o rest.fns]

\* PostgresEventPlugin.buildTriggerName: [namespace, fn.key].join('_')
pluginBuildTriggerName(fn) == Join(<< PluginConfig.namespace, fn.key >>, << "_" >>)

\* PostgresEventPlugin.buildCreateTriggerSql: result [ok, sql, error]
buildCreateTriggerSql(fn) ==
  LET tr == fn.trigger
      q  == helpersSplitQualifiedName(tr.table)
  IN IF tr.order # "AFTER"
     THEN [ok |-> FALSE, sql |-> NoStatement,
           error |-> Error("Only AFTER triggers are supported")]
     ELSE IF tr.level # "ROW"
     THEN [ok |-> FALSE, sql |-> NoStatement,
           error |-> Error("Only ROW triggers are supported")]
     ELSE IF ~q.ok
     THEN [ok |-> FALSE, sql |-> NoStatement,
           error |-> [name |-> "AssertionError", message |-> "assert(schema), assert(name)"]]
     ELSE [ok |-> TRUE, error |-> NoError,
           sql |-> Statement("create", qIdent(pluginBuildTriggerName(fn)), qIdent(q.schema),
                             qIdent(q.name), tr.order,
                             [i \in 1..Len(tr.operations) |->
                                [op |-> tr.operations[i], of |-> <<>>]],
                             toLowerCase(tr.level), qIdent(PluginConfig.namespace),
                             qIdent(PluginConfig.functionName), arnLiteral(fn.arn),
                             <<>>, <<>>,
                             IF Truthy(tr.when) THEN << "(" >> \o tr.when \o << ")" >>
                             ELSE <<>>)]

\* PostgresEventPlugin.buildDropTriggerSql: result [ok, sql, error]
buildDropTriggerSql(fn) ==
  LET q == helpersSplitQualifiedName(fn.trigger.table)
  IN IF ~q.ok
     THEN [ok |-> FALSE, sql |-> NoStatement,
           error |-> [name |-> "AssertionError", message |-> "assert(schema), assert(name)"]]
     ELSE [ok |-> TRUE, error |-> NoError,
           sql |-> Statement("drop", qIdent(pluginBuildTriggerName(fn)), qIdent(q.schema),
                             qIdent(q.name), "", <<>>, "", <<>>, <<>>, <<>>, <<>>, <<>>,
                             <<>>)]

\* The trigger a service's first function can already have in the database
ExistingTriggers(svc) ==
  { {},
    { DbTrigger("pgA", << "s" >>, << "t" >>,
                Join(<< svc.namespace, << "f", "a" >> >>, << "_" >>)) } }

\* The framework runs a command of the plugin: deploy (applyTriggers) or remove (dropTriggers)
PluginRun ==
  /\ pc = "idle"
  /\ hook = "none"
  /\ pin = NoInput
  /\ \E svc \in Services, h \in { "applyTriggers", "dropTriggers" } :
       /\ service' = svc
       /\ hook' = h
       /\ \E d \in ExistingTriggers(svc) : database' = d /\ prev' = d
  /\ pc' = "plugin.initialize"
  /\ UNCHANGED << pureVars, fns, at, outcome, template, env, event, physId, step,
                  client, pending, err, result, calls, conns, stmts, reports, logs >>

\* hooks.initialize: assert(this.config.connectionString, 'Missing Postgres connection string')
PluginInitialize ==
  /\ pc = "plugin.initialize"
  /\ IF PluginConfig.connectionString = ""
     THEN /\ err' = [name |-> "AssertionError",
                     message |-> "Missing Postgres connection string"]
          /\ outcome' = "raised"
          /\ pc' = "plugin.done"
     ELSE /\ pc' = "plugin.withClient"
          /\ UNCHANGED << err, outcome >>
  /\ UNCHANGED << pureVars, dbVars, service, hook, fns, at, template, env, event, physId,
                  step, client, pending, result, calls, conns, stmts, reports, logs >>

\* withClient up to the try: the connection-string check and await client.connect()
PluginWithClient ==
  /\ pc = "plugin.withClient"
  /\ IF PluginConfig.connectionString = ""
     THEN /\ err' = Error("Missing Postgres connection string")
          /\ outcome' = "raised"
          /\ pc' = "plugin.done"
          /\ UNCHANGED << client, conns >>
     ELSE \E ok \in BOOLEAN :
            /\ conns' = Append(conns, [ev |-> "connect", conn |-> PluginConfig.connectionString,
                                       fn |-> hook, ok |-> ok])
            /\ IF ok
               THEN /\ client' = "open"
                    /\ pc' = IF hook = "applyTriggers" THEN "plugin.ensureCoreSql"
                             ELSE "plugin.getFunctions"
                    /\ UNCHANGED << err, outcome >>
               ELSE /\ client' = "none"
                    /\ err' = Error("connect failed")
                    /\ outcome' = "raised"
                    /\ pc' = "plugin.done"
  /\ UNCHANGED << pureVars, dbVars, service, hook, fns, at, template, env, event, physId,
                  step, pending, result, calls, stmts, reports, logs >>

\* applyTriggers: await this.ensureCoreSql(client)
PluginEnsureCoreSql ==
  /\ pc = "plugin.ensureCoreSql"
  /\ \E ok \in BOOLEAN :
       /\ stmts' = Append(stmts, [conn |-> PluginConfig.connectionString,
                                  sql |-> sqlCreatePrerequisites(PluginConfig.roleName,
                                                                 PluginConfig.namespace,
                                                                 PluginConfig.functionName),
                                  ok |-> ok])
       /\ IF ok
          THEN /\ pc' = "plugin.getFunctions"
               /\ UNCHANGED pending
          ELSE /\ pc' = "plugin.end"
               /\ pending' = Error("query failed")
  /\ UNCHANGED << pureVars, dbVars, pluginVars, env, event, physId, step, client, err,
                  result, calls, conns, reports, logs >>

\* A loop that leaves after its first iteration
LoopOnce(list, i) == IF i > 1 \/ i > Len(list) THEN "plugin.end" ELSE "plugin.loop"

\* Where the loop over the functions continues: the next function, or the end of the callback
LoopOrEnd(list, i) == IF i > Len(list) THEN "plugin.end" ELSE "plugin.loop"

\* for (const fn of await this.getFunctionsWithPostgresEvent())
PluginGetFunctions ==
  /\ pc = "plugin.getFunctions"
  /\ LET r == getFunctionsWithPostgresEvent(service.functions)
     IN IF r.ok
        THEN /\ fns' = r.fns
             /\ at' = 1
             /\ pc' = LoopOrEnd(r.fns, 1)
             /\ UNCHANGED pending
        ELSE /\ pending' = r.error
             /\ pc' = "plugin.end"
             /\ UNCHANGED << fns, at >>
  /\ UNCHANGED << pureVars, dbVars, service, hook, outcome, template, env, event, physId,
                  step, client, err, result, calls, conns, stmts, reports, logs >>

\* The body of the loop: await client.query(this.buildCreateTriggerSql(fn)) in applyTriggers,
\* await client.query(this.buildDropTriggerSql(fn)) in dropTriggers
PluginQuery ==
  /\ pc = "plugin.loop"
  /\ LET b == IF hook = "applyTriggers" THEN buildCreateTriggerSql(fns[at])
              ELSE buildDropTriggerSql(fns[at])
     IN IF ~b.ok
        THEN /\ pending' = b.error
             /\ pc' = "plugin.end"
             /\ UNCHANGED << stmts, database, at >>
        ELSE \E good \in BOOLEAN :
               LET r  == Exec(database, PluginConfig.connectionString, b.sql)
                   ok == good /\ r.ok
               IN /\ stmts' = Append(stmts, [conn |-> PluginConfig.connectionString,
                                             sql |-> b.sql, ok |-> ok])
                  /\ database' = IF ok THEN r.db ELSE database
                  /\ IF ok
                     THEN /\ at' = at + 1
                          /\ pc' = LoopOrEnd(fns, at + 1)
                          /\ UNCHANGED pending
                     ELSE /\ pending' = Error("query failed")
                          /\ pc' = "plugin.end"
                          /\ UNCHANGED at
  /\ UNCHANGED << pureVars, prev, service, hook, fns, outcome, template, env, event, physId,
                  step, client, err, result, calls, conns, reports, logs >>

\* withClient: finally { await client.end() }, then applyTriggers / dropTriggers settles
PluginEnd ==
  /\ pc = "plugin.end"
  /\ \E ok \in BOOLEAN :
       LET e == IF ~ok THEN Error("end failed") ELSE pending
       IN /\ conns' = Append(conns, [ev |-> "end", conn |-> PluginConfig.connectionString,
                                     fn |-> hook, ok |-> ok])
          /\ err' = e
          /\ outcome' = IF e = NoError THEN "returned" ELSE "raised"
  /\ client' = "none"
  /\ pending' = NoError
  /\ pc' = "plugin.done"
  /\ UNCHANGED << pureVars, dbVars, service, hook, fns, at, template, env, event, physId,
                  step, result, calls, stmts, reports, logs >>

(* ---------------- src/unnamed/part_000: the build-time template generator ------------- *)

\* An entry of compiledCloudFormationTemplate.Resources
Resource(id, type, functionName, trigger) ==
  [id |-> id, type |-> type, functionName |-> functionName, trigger |-> trigger]

NoDefinition == PostgresEvent(<<>>, <<>>, Unset, Unset, Undefined)

\* ensureProviderResources: the role, the provider function and its log group
ensureProviderResources ==
  << Resource(<< "PostgresProviderRole" >>, "AWS::IAM::Role", <<>>, NoDefinition),
     Resource(<< "PostgresProviderLambdaFunction" >>, "AWS::Lambda::Function", <<>>,
              NoDefinition),
     Resource(<< "PostgresProviderLogGroup" >>, "AWS::Logs::LogGroup", <<>>, NoDefinition) >>

\* functionConfig.events.map(ev => 'postgres' in ev ? ev.postgres : undefined).filter(...)
functionPostgresEvents(f) == SelectSeq(f.events, LAMBDA ev : ev.postgres)

\* The loop of compilePostgresEvents over the functions: one Custom::PostgresTrigger
\* resource for a function that has postgres events, made of the first of them
RECURSIVE TriggerResources(_)
TriggerResources(functions) ==
  IF Len(functions) = 0 THEN <<>>
  ELSE LET f  == Head(functions)
           es == functionPostgresEvents(f)
       IN (IF Len(es) = 0 THEN <<>>
           ELSE << Resource(f.key \o << "PostgresTrigger" >>, "Custom::PostgresTrigger",
                            f.key, es[1].ev) >>)
          \o TriggerResources(Tail(functions))

\* hooks 'package:compileEvents': compilePostgresEvents, ensureProviderResources included
CompilePostgresEvents ==
  /\ pc = "idle"
  /\ hook = "none"
  /\ pin = NoInput
  /\ \E svc \in Services :
       /\ service' = svc
       /\ template' = ensureProviderResources
                      \o << Resource(<< "PostgresPrerequisites" >>,
                                     "Custom::PostgresPrerequisites", <<>>, NoDefinition) >>
                      \o TriggerResources(svc.functions)
  /\ hook' = "package:compileEvents"
  /\ outcome' = "returned"
  /\ pc' = "compile.done"
  /\ UNCHANGED << pureVars, dbVars, fns, at, env, event, physId, step, client, pending, err,
                  result, calls, conns, stmts, reports, logs >>

Next ==
  \/ Invoke
  \/ HandlerEnter
  \/ EnsurePrereqs
  \/ CreateTrigger
  \/ DropTrigger
  \/ ClientConnect
  \/ ClientQuery
  \/ ClientEnd
  \/ DropCatch
  \/ Respond
  \/ HandlerCatch
  \/ HandlerRethrow
  \/ PluginRun
  \/ PluginInitialize
  \/ PluginWithClient
  \/ PluginEnsureCoreSql
  \/ PluginGetFunctions
  \/ PluginQuery
  \/ PluginEnd
  \/ CompilePostgresEvents

Spec == Init /\ [][Next]_vars

(* ---------------- the trigger-name derivation, evaluated on its own ---------------- *)

\* How many times the derivation is called on one input
MaxCalls == 2

Namespaces == { NsA, NsB }

\* What the handler passes as targetArn to buildTriggerName: Lambda ARNs of one function
\* in two accounts and of a second function, and values without the ':function:' marker
Identities ==
  { ArnFull,
    << "b" >> \o FunctionMarker \o << "f", "a" >>,
    << "a" >> \o FunctionMarker \o << "f", "b" >>,
    ArnBare,
    << "f", "b" >>,
    << "a", ":" >>,
    << "l", "a", "m", "b", "d", "a" >> }

\* The function keys the deploy-time client passes in fn.key
FunctionKeys == { << "f", "a" >>, << "f", "b" >>, << "f", "_", "a" >> }

NamesInit ==
  /\ env = ""
  /\ event = NoEvent
  /\ pc = "idle"
  /\ physId = Null
  /\ step = NoStep
  /\ client = "none"
  /\ pending = NoError
  /\ err = NoError
  /\ result = "running"
  /\ calls = <<>>
  /\ conns = <<>>
  /\ stmts = <<>>
  /\ reports = <<>>
  /\ logs = <<>>
  /\ database = {}
  /\ prev = {}
  /\ hook = "none"
  /\ fns = <<>>
  /\ at = 0
  /\ outcome = "running"
  /\ template = <<>>
  /\ pout = NoOutput
  /\ \E ns \in Namespaces :
       /\ service = [connectionString |-> "", namespace |-> ns, functions |-> <<>>]
       /\ \/ \E a \in Identities, b \in Identities :
               pin = [f |-> "buildTriggerName", ns |-> ns, a |-> a, b |-> b]
          \/ \E a \in FunctionKeys, b \in FunctionKeys :
               pin = [f |-> "pluginBuildTriggerName", ns |-> ns, a |-> a, b |-> b]

\* One more call on the same inputs: the outputs, and whether they repeat the earlier ones
Called(a, b) ==
  [calls |-> pout.calls + 1, a |-> a, b |-> b,
   same |-> pout.same /\ (pout.calls = 0 \/ (a = pout.a /\ b = pout.b))]

\* The provider's buildTriggerName(namespace, targetArn), on the two identities
CallBuildTriggerName ==
  /\ pin.f = "buildTriggerName"
  /\ pout.calls < MaxCalls
  /\ pout' = Called(buildTriggerName(pin.ns, pin.a).val, buildTriggerName(pin.ns, pin.b).val)
  /\ UNCHANGED << pin, pluginVars, dbVars, env, event, pc, physId, step, client, pending,
                  err, result, calls, conns, stmts, reports, logs >>

\* The deploy-time client's buildTriggerName(fn), on the two functions
CallPluginBuildTriggerName ==
  /\ pin.f = "pluginBuildTriggerName"
  /\ pout.calls < MaxCalls
  /\ pout' = Called(pluginBuildTriggerName([key |-> pin.a]),
                    pluginBuildTriggerName([key |-> pin.b]))
  /\ UNCHANGED << pin, pluginVars, dbVars, env, event, pc, physId, step, client, pending,
                  err, result, calls, conns, stmts, reports, logs >>

NamesNext ==
  \/ CallBuildTriggerName
  \/ CallPluginBuildTriggerName

NamesSpec == NamesInit /\ [][NamesNext]_vars

(* ---------------- splitQualifiedName, evaluated on its own ---------------- *)

\* The longest qualified name that is split
MaxLen == 4

\* The characters of the qualified names
NameChars == { "a", "b", "." }

\* Every string of at most MaxLen characters
QualifiedNames == UNION { [1..n -> NameChars] : n \in 0..MaxLen }

\* All variables but pin at their values before anything runs
Quiet ==
  /\ env = ""
  /\ event = NoEvent
  /\ pc = "idle"
  /\ physId = Null
  /\ step = NoStep
  /\ client = "none"
  /\ pending = NoError
  /\ err = NoError
  /\ result = "running"
  /\ calls = <<>>
  /\ conns = <<>>
  /\ stmts = <<>>
  /\ reports = <<>>
  /\ logs = <<>>
  /\ database = {}
  /\ prev = {}
  /\ service = NoService
  /\ hook = "none"
  /\ fns = <<>>
  /\ at = 0
  /\ outcome = "running"
  /\ template = <<>>
  /\ pout = NoOutput

SplitInit ==
  /\ Quiet
  /\ \E f \in { "splitQualifiedName", "helpersSplitQualifiedName" }, q \in QualifiedNames :
       pin = [f |-> f, ns |-> <<>>, a |-> q, b |-> <<>>]

\* The provider's splitQualifiedName(qname)
CallSplitQualifiedName ==
  /\ pin.f = "splitQualifiedName"
  /\ pout.calls = 0
  /\ pout' = [calls |-> 1, a |-> splitQualifiedName(pin.a), b |-> <<>>, same |-> TRUE]
  /\ UNCHANGED << pin, pluginVars, dbVars, env, event, pc, physId, step, client, pending,
                  err, result, calls, conns, stmts, reports, logs >>

\* helpers.splitQualifiedName(qname)
CallHelpersSplitQualifiedName ==
  /\ pin.f = "helpersSplitQualifiedName"
  /\ pout.calls = 0
  /\ pout' = [calls |-> 1, a |-> helpersSplitQualifiedName(pin.a), b |-> <<>>,
              same |-> TRUE]
  /\ UNCHANGED << pin, pluginVars, dbVars, env, event, pc, physId, step, client, pending,
                  err, result, calls, conns, stmts, reports, logs >>

SplitNext ==
  \/ CallSplitQualifiedName
  \/ CallHelpersSplitQualifiedName

SplitSpec == SplitInit /\ [][SplitNext]_vars

(* ---------------- the SQL texts, built on their own ---------------- *)

\* The longest configured name interpolated into a SQL text
MaxNameLen == 2

\* The characters of the configured names: a letter and the two quote characters
QuoteChars == { "a", DQ, SQ }

\* Every configured name of at most MaxNameLen characters
ConfiguredNames == UNION { [1..n -> QuoteChars] : n \in 0..MaxNameLen }

\* pin.a is the name put in every identifier position, pin.b the value put in the
\* single-quoted literal (the role name of the prerequisites, the target ARN of a trigger)
SqlInit ==
  /\ Quiet
  /\ \E f \in { "sqlCreatePrerequisites", "sqlCreateTrigger", "sqlDropTrigger" },
        a \in ConfiguredNames, b \in ConfiguredNames :
       pin = [f |-> f, ns |-> <<>>, a |-> a, b |-> b]

\* sqlCreatePrerequisites(roleName, namespace, lambdaInvokerFn)
CallSqlCreatePrerequisites ==
  /\ pin.f = "sqlCreatePrerequisites"
  /\ pout.calls = 0
  /\ pout' = [calls |-> 1, a |-> sqlCreatePrerequisites(pin.b, pin.a, pin.a), b |-> <<>>,
              same |-> TRUE]
  /\ UNCHANGED << pin, pluginVars, dbVars, env, event, pc, physId, step, client, pending,
                  err, result, calls, conns, stmts, reports, logs >>

\* sqlCreateTrigger(triggerName, tblSchema, tblName, tr, namespace, dbFnName, targetArn)
CallSqlCreateTrigger ==
  /\ pin.f = "sqlCreateTrigger"
  /\ pout.calls = 0
  /\ pout' = [calls |-> 1,
              a |-> sqlCreateTrigger(pin.a, pin.a, pin.a,
                                     TriggerProps(pin.a, TRUE, NoUpdate, FALSE, Unset, Unset),
                                     pin.a, pin.a, pin.b).sql[1],
              b |-> <<>>, same |-> TRUE]
  /\ UNCHANGED << pin, pluginVars, dbVars, env, event, pc, physId, step, client, pending,
                  err, result, calls, conns, stmts, reports, logs >>

\* sqlDropTrigger(triggerName, tblSchema, tblName)
CallSqlDropTrigger ==
  /\ pin.f = "sqlDropTrigger"
  /\ pout.calls = 0
  /\ pout' = [calls |-> 1, a |-> sqlDropTrigger(pin.a, pin.a, pin.a), b |-> <<>>,
              same |-> TRUE]
  /\ UNCHANGED << pin, pluginVars, dbVars, env, event, pc, physId, step, client, pending,
                  err, result, calls, conns, stmts, reports, logs >>

SqlNext ==
  \/ CallSqlCreatePrerequisites
  \/ CallSqlCreateTrigger
  \/ CallSqlDropTrigger

SqlSpec == SqlInit /\ [][SqlNext]_vars

(* ---------------- vocabulary of the properties ---------------- *)

Done == pc = "done"

IsRequest(st, rt) == event.ServiceType = st /\ event.RequestType = rt

\* The connection string the previous configuration was deployed with: the explicit
\* value or, when none was configured, the process-wide default
oldEffectiveConn == IF TruthyConn(oldConn) THEN oldConn ELSE env

StmtsOfKind(k) == { i \in DOMAIN stmts : stmts[i].sql.kind = k }

\* The request passes every configuration check of the Trigger path
ValidTriggerRequest ==
  /\ Truthy(event.TargetArn)
  /\ TruthyConn(newConn)
  /\ splitQualifiedName(event.Trigger.table).ok
  /\ event.Trigger.order \in { Unset, "AFTER" }
  /\ event.Trigger.level \in { Unset, "ROW" }

\* No connect, query, end or report transport has failed
NoIoFailure ==
  /\ \A i \in DOMAIN conns : conns[i].ok
  /\ \A i \in DOMAIN stmts : stmts[i].ok
  /\ \A i \in DOMAIN reports : reports[i].transport = "ok"

\* The drop step has failed: the drop statement could not be built, or its connect,
\* query or end was rejected
DropFailed ==
  \/ \E i \in DOMAIN calls :
       calls[i].fn = "dropTrigger" /\ ~splitQualifiedName(event.Trigger.table).ok
  \/ \E i \in DOMAIN conns : conns[i].fn = "dropTrigger" /\ ~conns[i].ok
  \/ \E i \in DOMAIN stmts : stmts[i].sql.kind = "drop" /\ ~stmts[i].ok

(* ---------------- C1 ---------------- *)

\* C1: in a Trigger Update whose previous effective connection string differs from the
\* new one, every Drop-Trigger statement is issued against the OLD connection, none
\* against the new one, and before any Create-Trigger statement.
C1_DropGoesToOldConnection ==
  (Done /\ IsRequest("Trigger", "Update") /\ TruthyConn(oldEffectiveConn)
        /\ oldEffectiveConn # newConn)
  => \A i \in StmtsOfKind("drop") :
       /\ stmts[i].conn = oldEffectiveConn
       /\ stmts[i].conn # newConn
       /\ \A j \in StmtsOfKind("create") : i < j

(* ---------------- C2 ---------------- *)

\* C2: in a Trigger Update whose old and new connection strings are equal, a valid
\* request whose database round trips all succeed issues exactly one Drop-Trigger and
\* then exactly one Create-Trigger, both against that connection, and nothing else.
C2_DropThenCreateOnSingleConnection ==
  (Done /\ IsRequest("Trigger", "Update") /\ oldEffectiveConn = newConn
        /\ ValidTriggerRequest /\ NoIoFailure)
  => /\ Len(stmts) = 2
     /\ stmts[1].sql.kind = "drop" /\ stmts[1].conn = newConn
     /\ stmts[2].sql.kind = "create" /\ stmts[2].conn = newConn

(* ---------------- C3 ---------------- *)

\* C3: in a Trigger Update of a valid request, once the drop step has failed the
\* Create-Trigger step still runs against the new connection (it opens a connection to
\* it), and when the create succeeds a Success outcome is reported.
C3_CreateRunsAfterFailedDrop ==
  (Done /\ IsRequest("Trigger", "Update") /\ ValidTriggerRequest /\ DropFailed)
  => /\ \E i \in DOMAIN conns :
          conns[i].fn = "createTrigger" /\ conns[i].ev = "connect"
          /\ conns[i].conn = newConn
     /\ (\E i \in StmtsOfKind("create") : stmts[i].ok)
          => \E i \in DOMAIN reports : reports[i].body.Status = "SUCCESS"

(* ---------------- C4 ---------------- *)

\* C4 as stated: a Trigger Delete issues exactly one statement, a Drop-Trigger against
\* the current connection.
C4_ExactlyOneDrop ==
  (Done /\ IsRequest("Trigger", "Delete"))
  => /\ Len(stmts) = 1
     /\ stmts[1].sql.kind = "drop"
     /\ stmts[1].conn = newConn

\* C4 (amended): a Trigger Delete issues at most one statement, and only a Drop-Trigger
\* against the current connection (never Prerequisites SQL or Create-Trigger); it issues
\* exactly one when the request has a TargetArn, a connection string and a well-formed
\* table name and the connection opens, and none otherwise.
C4_DeleteIssuesOnlyTheDrop ==
  IsRequest("Trigger", "Delete")
  => /\ Len(stmts) <= 1
     /\ \A i \in DOMAIN stmts : stmts[i].sql.kind = "drop" /\ stmts[i].conn = newConn
     /\ \A i \in DOMAIN calls : calls[i].fn = "dropTrigger"
     /\ Done =>
          (Len(stmts) = 1
           <=> /\ Truthy(event.TargetArn) /\ TruthyConn(newConn)
               /\ splitQualifiedName(event.Trigger.table).ok
               /\ \E i \in DOMAIN conns :
                    conns[i].ev = "connect" /\ conns[i].ok /\ conns[i].conn = newConn)

C4_Witness ==
  /\ Done /\ IsRequest("Trigger", "Delete")
  /\ Len(stmts) = 1 /\ stmts[1].sql.kind = "drop" /\ stmts[1].conn = newConn
  /\ event.Database.ConnectionString = "" /\ newConn = "pgA"

(* ---------------- C5 ---------------- *)

\* C5: a Trigger Delete whose only error is a failure of the drop step (the report
\* transport works) reports exactly a Success outcome and the handler returns normally.
C5_DeleteSurvivesDropFailure ==
  (Done /\ IsRequest("Trigger", "Delete") /\ DropFailed
        /\ \A i \in DOMAIN reports : reports[i].transport = "ok")
  => /\ result = "returned"
     /\ Len(reports) = 1
     /\ reports[1].body.Status = "SUCCESS"

C5_Witness ==
  /\ Done /\ IsRequest("Trigger", "Delete") /\ DropFailed
  /\ Len(stmts) = 1 /\ ~stmts[1].ok
  /\ result = "returned" /\ reports[1].body.Status = "SUCCESS"

(* ---------------- C6 ---------------- *)

\* C6: one invocation of the handler sends exactly one outcome report.
C6_ExactlyOneReport == Done => Len(reports) = 1

(* ---------------- C7 ---------------- *)

\* C7: when the handler raises, the last report sent before it is a Failure outcome
\* carrying a non-empty error string.
C7_FailureReportedBeforeRaise ==
  result = "raised"
  => /\ Len(reports) >= 1
     /\ reports[Len(reports)].body.Status = "FAILED"
     /\ reports[Len(reports)].body.Error # Undefined
     /\ Len(reports[Len(reports)].body.Error) > 0

C7_Witness ==
  /\ pc = "rethrow" /\ result = "running"
  /\ reports[Len(reports)].body.Status = "FAILED"
  /\ err = Error("query failed")

(* ---------------- C8 ---------------- *)

\* C8: when only the sending of the outcome report fails (every DDL step succeeded),
\* the handler does not raise and no Failure outcome is reported.
C8_TransportErrorsSwallowed ==
  (Done /\ ~DropFailed
        /\ (\A i \in DOMAIN conns : conns[i].ok) /\ (\A i \in DOMAIN stmts : stmts[i].ok)
        /\ Len(reports) >= 1 /\ reports[1].body.Status = "SUCCESS")
  => /\ result = "returned"
     /\ \A i \in DOMAIN reports : reports[i].body.Status = "SUCCESS"

(* ---------------- C9 ---------------- *)

\* C9: every Failure outcome of an Update or Delete request carries the physical
\* identifier previously assigned to the resource, never null.
C9_FailureCarriesPhysicalId ==
  event.RequestType \in { "Update", "Delete" }
  => \A i \in DOMAIN reports :
       reports[i].body.Status = "FAILED"
       => /\ reports[i].body.PhysicalResourceId # Null
          /\ reports[i].body.PhysicalResourceId = event.PhysicalResourceId

(* ---------------- C10 ---------------- *)

\* C10: a valid Trigger Create whose round trips all succeed runs one Create-Trigger
\* statement against the configured target and reports Success with a physical
\* identifier that is the name of the trigger created.
C10_CreateRunsAndReportsItsName ==
  (Done /\ IsRequest("Trigger", "Create") /\ ValidTriggerRequest /\ NoIoFailure)
  => /\ Len(stmts) = 1
     /\ stmts[1].sql.kind = "create"
     /\ stmts[1].conn = newConn
     /\ Len(reports) = 1
     /\ reports[1].body.Status = "SUCCESS"
     /\ stmts[1].sql.trigger = qIdent(reports[1].body.PhysicalResourceId)

(* ---------------- C11 ---------------- *)

\* C11: whenever the handler calls createTrigger for a valid request, the trigger name
\* the create derives is the trigger name dropTrigger derives for the same namespace and
\* function.
C11_CreateAndDropUseOneName ==
  \A i \in DOMAIN calls :
    (calls[i].fn = "createTrigger" /\ ValidTriggerRequest)
    => LET c == createTrigger(newConn, event.Database, event.Trigger, event.TargetArn,
                              calls[i].functionName)
           d == dropTrigger(newConn, event.Database, event.Trigger, event.TargetArn)
       IN c.ok /\ d.ok /\ c.sql.trigger = d.sql.trigger

(* ---------------- C12 ---------------- *)

\* The triggers this request has created
Recreated ==
  { [conn |-> stmts[i].conn, schema |-> stmts[i].sql.schema, table |-> stmts[i].sql.table,
     name |-> stmts[i].sql.trigger] : i \in { j \in StmtsOfKind("create") : stmts[j].ok } }

InvalidRequest ==
  \/ event.ServiceType = "Trigger" /\ ~ValidTriggerRequest
  \/ event.ServiceType = "Prerequisites" /\ ~TruthyConn(newConn)

\* C13: a request of the handler that carries an unsupported order or level, a malformed
\* table name, no TargetArn or no connection string executes no statement against any
\* database, whatever its request type, and ends raising a configuration error that was
\* reported as a Failure outcome.
C13_ConfigErrorsPrecedeDdl ==
  InvalidRequest
  => /\ stmts = <<>>
     /\ Done => /\ result = "raised"
                /\ \E i \in DOMAIN reports : reports[i].body.Status = "FAILED"

(* ---------------- C14 ---------------- *)

\* The functions of the service that declare more than one postgres event
FunctionsWithManyEvents ==
  { i \in DOMAIN service.functions :
      Len(SelectSeq(service.functions[i].events, LAMBDA ev : ev.postgres)) > 1 }

\* The deploy-time client or the template generator has finished
Registered == pc \in { "plugin.done", "compile.done" }

\* C14: when a function of the service declares more than one postgres event, event
\* registration ends raising an error, in the deploy-time client and in the template
\* generator alike, and neither a trigger statement nor a trigger resource has been
\* made for that function.
C14_MoreThanOneEventIsAnError ==
  (Registered /\ FunctionsWithManyEvents # {})
  => /\ outcome = "raised"
     /\ \A i \in FunctionsWithManyEvents :
          /\ \A j \in DOMAIN template :
               template[j].functionName # service.functions[i].key
          /\ \A j \in DOMAIN stmts :
               stmts[j].sql.trigger
                 # qIdent(Join(<< PluginConfig.namespace, service.functions[i].key >>,
                               << "_" >>))

(* ---------------- C15 ---------------- *)

\* A function of the service has more than one postgres event, or a postgres event with
\* an unsupported order or level or a malformed table name
ServiceHasConfigError ==
  \/ FunctionsWithManyEvents # {}
  \/ \E i \in DOMAIN service.functions :
       \E k \in DOMAIN service.functions[i].events :
         LET e == service.functions[i].events[k]
         IN /\ e.postgres
            /\ \/ e.ev.order \notin { Unset, "AFTER" }
               \/ e.ev.level \notin { Unset, "ROW" }
               \/ ~helpersSplitQualifiedName(e.ev.table).ok

\* C15: in applyTriggers of the deploy-time client, a service with such a configuration
\* error has no statement executed on the connection, neither the prerequisite SQL nor
\* the Create-Trigger SQL of any function, and the run ends raising the error.
C15_PluginConfigErrorsPrecedeDdl ==
  (hook = "applyTriggers" /\ ServiceHasConfigError)
  => /\ stmts = <<>>
     /\ pc = "plugin.done" => outcome = "raised"

(* ---------------- C16 ---------------- *)

\* C16: a Delete request on the Prerequisites path opens no connection,
\* executes no statement and reports a Success outcome with the resource's physical
\* identifier.
C16_PrereqDeleteReportsSuccess ==
  IsRequest("Prerequisites", "Delete")
  => /\ conns = <<>>
     /\ stmts = <<>>
     /\ Done => \E i \in DOMAIN reports :
                  /\ reports[i].body.Status = "SUCCESS"
                  /\ reports[i].body.PhysicalResourceId = event.PhysicalResourceId

(* ---------------- C17 ---------------- *)

\* C17: in the handler and in the deploy-time client alike, no connection is ever opened
\* and no statement ever executed with an empty connection string; and when neither an
\* explicit connection string nor the process-wide default is available, the operation
\* ends raising an error (reported as a Failure outcome by the handler) without having
\* opened a connection.
C17_ConnectionStringNeverEmpty ==
  /\ \A i \in DOMAIN conns : conns[i].conn # ""
  /\ \A i \in DOMAIN stmts : stmts[i].conn # ""
  /\ (Done /\ newConn = "")
     => /\ result = "raised"
        /\ conns = <<>>
        /\ reports[Len(reports)].body.Status = "FAILED"
  /\ (pc = "plugin.done" /\ PluginConfig.connectionString = "")
     => /\ outcome = "raised"
        /\ conns = <<>>

C17_Witness ==
  /\ Done /\ IsRequest("Trigger", "Update")
  /\ event.Database.ConnectionString = "" /\ event.OldDatabase.ConnectionString = ""
  /\ Len(stmts) = 1 /\ stmts[1].conn = "pgA"
  /\ Len(conns) >= 2 /\ conns[1].conn = "pgA"

(* ---------------- C18 ---------------- *)

\* A withClient call has opened its connection and has not settled yet
InWithClient ==
  pc \in { "query", "end", "plugin.ensureCoreSql", "plugin.getFunctions", "plugin.loop",
           "plugin.end" }

\* C18 as stated: once a withClient call has settled, whether its connect succeeded or
\* failed, the client's end has been performed once for it.
C18_EveryConnectIsClosed ==
  ~InWithClient
  => \A i \in DOMAIN conns :
       conns[i].ev = "connect"
       => /\ i < Len(conns)
          /\ conns[i + 1].ev = "end"

\* C18 (amended): in the handler and in the deploy-time client, every withClient call
\* whose connection opened performs the client's end exactly once, whether its action
\* returns or raises, before the call settles; a call whose connect fails performs no
\* end.
C18_OpenedConnectionIsClosedOnce ==
  /\ \A i \in DOMAIN conns :
       conns[i].ev = "end"
       => /\ i > 1
          /\ conns[i - 1].ev = "connect" /\ conns[i - 1].ok
          /\ conns[i - 1].conn = conns[i].conn
  /\ \A i \in DOMAIN conns :
       (conns[i].ev = "connect" /\ i < Len(conns))
       => IF conns[i].ok THEN conns[i + 1].ev = "end" ELSE conns[i + 1].ev = "connect"
  /\ (conns # <<>> /\ conns[Len(conns)].ev = "connect" /\ conns[Len(conns)].ok)
     <=> InWithClient
  /\ client = "open" <=> InWithClient

C18_Witness ==
  /\ pc = "plugin.done" /\ hook = "applyTriggers" /\ outcome = "raised"
  /\ Len(stmts) = 2 /\ stmts[1].ok /\ ~stmts[2].ok
  /\ Len(conns) = 2 /\ conns[2].ev = "end" /\ conns[2].ok

(* ---------------- C19 ---------------- *)

\* The triggers of the statement's name on the statement's table in the content d
TriggersOf(d, conn, sql) ==
  { t \in d : t.conn = conn /\ t.schema = sql.schema /\ t.table = sql.table
              /\ t.name = sql.trigger }

\* Running the statement on d succeeds, running it again on the result succeeds and
\* changes nothing, and the result has exactly one trigger of its name on its table
RunsIdempotently(d, conn, sql) ==
  LET once  == Exec(d, conn, sql)
      twice == Exec(once.db, conn, sql)
  IN /\ once.ok
     /\ twice.ok
     /\ twice.db = once.db
     /\ Cardinality(TriggersOf(once.db, conn, sql)) = 1
     /\ once.db \ TriggersOf(once.db, conn, sql) = d \ TriggersOf(d, conn, sql)

\* C19: the Create-Trigger SQL is idempotent. Whatever the database holds, the statement
\* the deploy-time client is about to run for a function, and the statement the
\* provider's createTrigger builds for a valid request and a function name, run once
\* and run twice leave the same triggers, exactly one of the derived name on the table,
\* and neither run fails because the trigger exists.
C19_CreateTriggerIsIdempotent ==
  /\ (pc = "plugin.loop" /\ hook = "applyTriggers")
     => LET b == buildCreateTriggerSql(fns[at])
        IN b.ok => RunsIdempotently(database, PluginConfig.connectionString, b.sql)
  /\ (event.ServiceType = "Trigger" /\ ValidTriggerRequest)
     => LET c == createTrigger(newConn, event.Database, event.Trigger, event.TargetArn,
                               event.TargetArn)
        IN c.ok /\ RunsIdempotently(database, newConn, c.sql)
  /\ \A i \in DOMAIN stmts :
       (stmts[i].sql.kind = "create" /\ stmts[i].ok /\ i = Len(stmts))
       => RunsIdempotently(database, stmts[i].conn, stmts[i].sql)

C19_Witness ==
  /\ pc = "plugin.done" /\ hook = "applyTriggers" /\ outcome = "returned"
  /\ Len(stmts) = 3 /\ stmts[2].sql.kind = "create" /\ stmts[3].sql.kind = "create"
  /\ Cardinality(prev) = 1 /\ prev \subseteq database
  /\ Cardinality(database) = 2
  /\ \E t \in prev : t.name = stmts[2].sql.trigger /\ t.table = stmts[2].sql.table

(* ---------------- C20 ---------------- *)

\* The function name a trigger name is derived from: the function key in the deploy-time
\* client, in the provider what lambdaNameFromArn extracts from the identity
FunctionNameOf(x) ==
  IF pin.f = "buildTriggerName" THEN lambdaNameFromArn(x).val ELSE x

C21_SplitsOnFirstDot ==
  pout.calls = 1
  => IF ~Includes(pin.a, ".")
     THEN /\ pout.a.ok
          /\ pout.a.schema = << "p", "u", "b", "l", "i", "c" >>
          /\ pout.a.name = pin.a
     ELSE LET dot    == CHOOSE i \in 1..Len(pin.a) :
                          pin.a[i] = "." /\ \A j \in 1..(i - 1) : pin.a[j] # "."
              before == SubSeq(pin.a, 1, dot - 1)
              after  == SubSeq(pin.a, dot + 1, Len(pin.a))
          IN IF before = <<>> \/ after = <<>>
             THEN ~pout.a.ok
             ELSE /\ pout.a.ok
                  /\ pout.a.schema = before
                  /\ pout.a.name = after

(* ---------------- C22 ---------------- *)

AllOperations ==
  << [op |-> "INSERT", of |-> <<>>], [op |-> "UPDATE", of |-> <<>>],
     [op |-> "DELETE", of |-> <<>>] >>

\* C22: no Create-Trigger statement has an empty operation list, and a trigger spec that
\* requests no operation (an empty operations list in the deploy-time client, none of
\* the insert/update/delete flags in the provider) gets INSERT OR UPDATE OR DELETE.
C22_OperationsDefaultToAll ==
  /\ \A i \in StmtsOfKind("create") : stmts[i].sql.ops # <<>>
  /\ (pc = "plugin.loop" /\ hook = "applyTriggers" /\ fns[at].trigger.operations = <<>>)
     => LET b == buildCreateTriggerSql(fns[at])
        IN b.ok /\ b.sql.ops = AllOperations
  /\ (event.ServiceType = "Trigger" /\ ~event.Trigger.insert /\ ~event.Trigger.delete
        /\ ~event.Trigger.update.present)
     => buildOps(event.Trigger) = AllOperations

(* ---------------- C23 ---------------- *)

\* C23: a trigger configuration that omits order and level is accepted as order AFTER
\* and level ROW: the deploy-time client builds its Create-Trigger statement with them
\* instead of rejecting it, and so does the provider's sqlCreateTrigger.
C23_OrderAndLevelDefault ==
  /\ (pc = "plugin.loop" /\ hook = "applyTriggers"
        /\ fns[at].trigger.order = Unset /\ fns[at].trigger.level = Unset
        /\ helpersSplitQualifiedName(fns[at].trigger.table).ok)
     => LET b == buildCreateTriggerSql(fns[at])
        IN b.ok /\ b.sql.order = "AFTER" /\ b.sql.level = toLowerCase("ROW")
  /\ (event.ServiceType = "Trigger" /\ event.Trigger.order = Unset
        /\ event.Trigger.level = Unset /\ splitQualifiedName(event.Trigger.table).ok)
     => LET q == splitQualifiedName(event.Trigger.table)
            c == sqlCreateTrigger(physId, q.schema, q.name, event.Trigger,
                                  event.Database.Namespace, event.Database.FunctionName,
                                  event.TargetArn)
        IN c.ok /\ c.sql[1].order = "AFTER" /\ c.sql[1].level = toLowerCase("ROW")

(* ---------------- C24 ---------------- *)

\* The functions of the service that declare a postgres event, in declared order
FunctionsWithEvent ==
  SelectSeq(service.functions, LAMBDA f : \E k \in DOMAIN f.events : f.events[k].postgres)

\* The statements a complete run of the hook executes, as [kind, trigger] in order:
\* applyTriggers the prerequisite SQL and one create per function, dropTriggers one drop
\* per function
ExpectedStatements ==
  LET perFunction ==
        [i \in 1..Len(FunctionsWithEvent) |->
           [kind    |-> IF hook = "applyTriggers" THEN "create" ELSE "drop",
            trigger |-> qIdent(Join(<< service.namespace, FunctionsWithEvent[i].key >>,
                                    << "_" >>))]]
  IN IF hook = "applyTriggers"
     THEN << [kind |-> "prereq", trigger |-> <<>>] >> \o perFunction
     ELSE perFunction

\* C24: the statements of applyTriggers are, in this order, the prerequisite SQL and one
\* Create-Trigger statement per function with a postgres event in declared function
\* order; those of dropTriggers are one Drop-Trigger statement per such function in the
\* same order and no prerequisite statement. A statement is issued only when the one
\* before it has completed, and a run that returns has executed all of them.
C24_StatementsInDeclaredOrder ==
  hook \in { "applyTriggers", "dropTriggers" }
  => /\ Len(stmts) <= Len(ExpectedStatements)
     /\ \A i \in DOMAIN stmts :
          /\ stmts[i].sql.kind = ExpectedStatements[i].kind
          /\ stmts[i].sql.trigger = ExpectedStatements[i].trigger
          /\ i < Len(stmts) => stmts[i].ok
     /\ pc = "plugin.loop"
          => Len(stmts) = at - 1 + (IF hook = "applyTriggers" THEN 1 ELSE 0)
     /\ (pc = "plugin.done" /\ outcome = "returned")
          => Len(stmts) = Len(ExpectedStatements)

C24_Witness ==
  /\ pc = "plugin.done" /\ hook = "applyTriggers" /\ outcome = "returned"
  /\ Len(stmts) = 3 /\ Len(service.functions) = 2
  /\ stmts[1].sql.kind = "prereq"
  /\ stmts[2].sql.trigger = qIdent(Join(<< NsA, << "f", "a" >> >>, << "_" >>))
  /\ stmts[3].sql.trigger = qIdent(Join(<< NsA, << "f", "b" >> >>, << "_" >>))

(* ---------------- C25 ---------------- *)

\* What the provider reads of a Trigger property that carries this declared event: the
\* fields of TriggerProps it looks at, absent ones undefined
AsTriggerProps(ev) ==
  [table |-> ev.table, insert |-> FALSE, update |-> NoUpdate, delete |-> FALSE,
   order |-> ev.order, level |-> ev.level, when |-> ev.when]

\* C25: a WHEN predicate of the trigger configuration is in the Create-Trigger SQL
\* verbatim, and without one the SQL has no WHEN clause: in the statement the deploy-time
\* client builds and executes, and in the statement the provider builds from the Trigger
\* property that the template generator registered.
C25_WhenClauseIsKept ==
  /\ (pc = "plugin.loop" /\ hook = "applyTriggers")
     => LET b == buildCreateTriggerSql(fns[at])
            w == fns[at].trigger.when
        IN b.ok => b.sql.whenClause = (IF Truthy(w) THEN << "(" >> \o w \o << ")" >>
                                       ELSE <<>>)
  /\ \A i \in StmtsOfKind("create") :
       \E j \in DOMAIN fns :
         /\ stmts[i].sql.trigger = qIdent(pluginBuildTriggerName(fns[j]))
         /\ Truthy(fns[j].trigger.when) <=> stmts[i].sql.whenClause # <<>>
  /\ \A j \in DOMAIN template :
       template[j].type = "Custom::PostgresTrigger"
       => LET tr == AsTriggerProps(template[j].trigger)
              q  == splitQualifiedName(tr.table)
              c  == sqlCreateTrigger(template[j].functionName, q.schema, q.name, tr,
                                     service.namespace, InvokerFn, ArnFull)
          IN c.ok => (Truthy(tr.when) <=> c.sql[1].whenClause # <<>>)

(* ---------------- C26 ---------------- *)

\* C26: in dropTriggers, a failed Drop-Trigger statement of one function does not end
\* the run: when the run is over, the Drop-Trigger statement of every function with a
\* postgres event has been issued.
C26_DropTriggersIsBestEffort ==
  (/\ hook = "dropTriggers" /\ pc = "plugin.done"
   /\ FunctionsWithManyEvents = {}
   /\ \A i \in DOMAIN FunctionsWithEvent :
        \A k \in DOMAIN FunctionsWithEvent[i].events :
          FunctionsWithEvent[i].events[k].postgres
          => helpersSplitQualifiedName(FunctionsWithEvent[i].events[k].ev.table).ok
   /\ \E i \in DOMAIN stmts : ~stmts[i].ok)
  => Len(stmts) = Len(ExpectedStatements)

(* ---------------- C27 ---------------- *)

\* The handler is serving a request
InHandler == event.ServiceType \in { "Prerequisites", "Trigger" }

\* Every connection but the last one opened has been closed right after it was opened,
\* and the last one is open only while its step runs
OneConnectionAtATime ==
  /\ \A i \in DOMAIN conns :
       (conns[i].ev = "connect" /\ conns[i].ok /\ i < Len(conns))
       => /\ conns[i + 1].ev = "end"
          /\ conns[i + 1].fn = conns[i].fn
  /\ client = "open" => /\ conns # <<>>
                        /\ conns[Len(conns)].ev = "connect"
                        /\ conns[Len(conns)].fn = step.fn

\* C27: in the handler each reconciliation step opens its own connection and closes it
\* before the next step opens one: at most one connection is open at any time, and in a
\* valid Update (and Create) whose connections all open, the create step opens its
\* connection, after the drop's connection has been closed.
C27_EachStepOwnsItsConnection ==
  InHandler
  => /\ OneConnectionAtATime
     /\ (Done /\ event.ServiceType = "Trigger" /\ event.RequestType \in { "Create", "Update" }
           /\ ValidTriggerRequest /\ \A i \in DOMAIN conns : conns[i].ok)
        => \E i \in DOMAIN conns :
             /\ conns[i].ev = "connect" /\ conns[i].fn = "createTrigger"
             /\ \A j \in 1..(i - 1) :
                  conns[j].ev = "connect" => (j + 1 < i /\ conns[j + 1].ev = "end")

(* ---------------- C28 ---------------- *)

\* Reading a quoted text from its opening quote q: every q inside is the first of a
\* pair, and with the pairs read as one q the text inside is `inner`
RECURSIVE ReadsAs(_, _, _)
ReadsAs(t, q, inner) ==
  IF t = <<>> THEN inner = <<>>
  ELSE IF t[1] = q
  THEN /\ Len(t) >= 2 /\ t[2] = q
       /\ inner # <<>> /\ inner[1] = q
       /\ ReadsAs(SubSeq(t, 3, Len(t)), q, Tail(inner))
  ELSE /\ inner # <<>> /\ inner[1] = t[1]
       /\ ReadsAs(Tail(t), q, Tail(inner))

\* The text is `value` between two q, and nothing in it ends the quoting early
Quotes(text, q, value) ==
  /\ Len(text) >= 2
  /\ text[1] = q /\ text[Len(text)] = q
  /\ ReadsAs(SubSeq(text, 2, Len(text) - 1), q, value)

\* C28: in every generated SQL text each name in identifier position is the configured
\* name in double quotes with its double quotes doubled, and each value in a
\* single-quoted literal (the target ARN, the role name of the catalog lookup) is the
\* configured value with its single quotes doubled.
C28_InterpolatedTextIsEscaped ==
  pout.calls = 1
  => LET sql == pout.a
     IN /\ sql.kind \in { "create", "drop" }
           => /\ Quotes(sql.trigger, DQ, pin.a)
              /\ Quotes(sql.schema, DQ, pin.a)
              /\ Quotes(sql.table, DQ, pin.a)
        /\ sql.kind \in { "create", "prereq" }
           => /\ Quotes(sql.ns, DQ, pin.a)
              /\ Quotes(sql.fn, DQ, pin.a)
        /\ sql.kind = "create" => Quotes(sql.arg, SQ, pin.b)
        /\ sql.kind = "prereq"
           => /\ Quotes(sql.role, DQ, pin.b)
              /\ Quotes(sql.roleLit, SQ, pin.b)

====
